---- MODULE Spec2Model ----
(***************************************************************************)
(* Model of the Logs-Dashboard backend (backend/logs_app): the log store   *)
(* with its filter and aggregation endpoints, and the per-user filter      *)
(* preference store, as served by LogViewSet and                           *)
(* UserFilterPreferenceViewSet.                                            *)
(*                                                                         *)
(* Text (message, source, search parameter) is a sequence of one-character *)
(* strings, so that substring search, case folding and word splitting are  *)
(* computed.  A timestamp is <<month, day, hour>>.  Every request leaves   *)
(* its response in resp: the operation, the caller, the addressed id, the  *)
(* request body, the HTTP status and the body (a sequence of serialized    *)
(* objects).                                                               *)
(*                                                                         *)
(* SpecPref runs the preference endpoints and SpecLog the log CRUD         *)
(* endpoints from empty tables.  SpecRaw and SpecAggregated run the query  *)
(* endpoints on every store of sample rows, for a request whose query      *)
(* parameters (query) are drawn in the initial state; SpecOrdering does    *)
(* the same for the ordering parameter of the raw listing.  SpecExport     *)
(* runs the streamed CSV export, pull by pull, and SpecExportFair adds     *)
(* that the server closes a response it stops iterating.  SpecRegister     *)
(* runs two registration requests in every interleaving of their steps.    *)
(***************************************************************************)
EXTENDS Integers, Sequences, FiniteSets, TLC

VARIABLES users, prefs, nextPrefId, logs, nextLogId, query, resp,
          emailOf, reg, stream

vars == <<users, prefs, nextPrefId, logs, nextLogId, query, resp, emailOf, reg, stream>>

(***************************************************************************)
(* Bounds of the model.                                                    *)
(***************************************************************************)
MaxPrefId == 2

MaxLogId == 2

\* Rows a cursor fetches in one batch (scaled down from chunk_size=500).
ChunkSize == 2

(***************************************************************************)
(* Users and callers.                                                      *)
(***************************************************************************)
\* A field or parameter the request does not carry.
Absent == "<absent>"

\* The caller of a response that answers no request of a user.
Anonymous == "<anonymous>"

Users == {"admin", "bob"}

Superusers == {"admin"}

\* The email address each stored user registered with.
UserEmail == [u \in Users |-> IF u = "admin" THEN "admin@logsdashboard.com"
                                             ELSE "bob@logsdashboard.com"]

\* Requests carry the credential of admin or of bob; a credential authenticates
\* as long as its user is stored.
Callers == Users

\* permissions.IsAuthenticated.
IsAuthenticated(caller) == caller \in users

HTTP_200_OK == 200

HTTP_201_CREATED == 201

HTTP_204_NO_CONTENT == 204

HTTP_400_BAD_REQUEST == 400

HTTP_401_UNAUTHORIZED == 401

HTTP_404_NOT_FOUND == 404

HTTP_500_INTERNAL_SERVER_ERROR == 500

NoRequest == [name |-> Absent, user |-> Absent]

NoResp ==
    [op |-> "none", caller |-> Anonymous, id |-> 0, req |-> NoRequest, status |-> 0,
     body |-> <<>>]

Response(op, caller, id, req, status, body) ==
    [op |-> op, caller |-> caller, id |-> id, req |-> req, status |-> status,
     body |-> body]

(***************************************************************************)
(* Filter preference store: UserFilterPreference rows are (id, user, name).*)
(* The saved filter values (severity, source, date_from, date_to) and the  *)
(* store-assigned created_at / updated_at are free data that no handler    *)
(* reads; they are left out.  Rows are created in id order, so ordering by *)
(* -created_at is ordering by descending id.                               *)
(***************************************************************************)
NameMaxLength == 100

PrefNames == {"", "a", "b"}

PrefBodies == [name : PrefNames \cup {Absent}, user : Users \cup {Absent}]

PrefIds == 1..MaxPrefId

\* The rows of a set with ids, as a sequence in descending id order.
RECURSIVE ByIdDesc(_)
ByIdDesc(rows) ==
    IF rows = {} THEN <<>>
    ELSE LET top == CHOOSE r \in rows : \A o \in rows : o.id <= r.id
         IN  <<top>> \o ByIdDesc(rows \ {top})

\* Variant: the queryset is not scoped to the caller.
PrefQueryset_Unscoped(caller) == prefs

\* UserFilterPreferenceViewSet.get_queryset: only the caller's rows.
PrefQueryset(caller) == {p \in prefs : p.user = caller}

\* UserFilterPreferenceSerializer validation.  user is read-only, so it is
\* dropped from the input and no (user, name) validator is generated; name is
\* required (unless the update is partial), not blank, at most 100 characters.
PrefValid(body, partial) ==
    IF body.name = Absent THEN partial
    ELSE body.name # "" /\ Len(body.name) <= NameMaxLength

\* Variant: the table has no unique index.
PrefUniqueViolation_NoIndex(id, user, name) == FALSE

\* unique_together = [["user", "name"]]: would writing (user, name) to row id
\* (0 for a new row) violate the unique index?
PrefUniqueViolation(id, user, name) ==
    \E p \in prefs : p.id # id /\ p.user = user /\ p.name = name

\* perform_create: serializer.save(user=request.user).
PrefOwnerOnCreate(caller, body) == caller

\* Variant: user is a writable field.
PrefOwnerOnUpdate_FromBody(p, body) ==
    IF body.user = Absent THEN p.user ELSE body.user

\* An update writes validated_data only; the read-only user is not in it.
PrefOwnerOnUpdate(p, body) == p.user

PrefCreate(caller, body) ==
    /\ UNCHANGED <<users, logs, nextLogId, query, emailOf, reg, stream>>
    /\ IF ~IsAuthenticated(caller)
       THEN /\ resp' = Response("pref_create", caller, 0, body,
                            HTTP_401_UNAUTHORIZED, <<>>)
            /\ UNCHANGED <<prefs, nextPrefId>>
       ELSE IF ~PrefValid(body, FALSE)
       THEN /\ resp' = Response("pref_create", caller, 0, body, HTTP_400_BAD_REQUEST, <<>>)
            /\ UNCHANGED <<prefs, nextPrefId>>
       ELSE LET row == [id |-> nextPrefId, user |-> PrefOwnerOnCreate(caller, body),
                        name |-> body.name]
            IN  IF PrefUniqueViolation(0, row.user, row.name)
                THEN \* IntegrityError from the INSERT: not an APIException
                     /\ resp' = Response("pref_create", caller, 0, body,
                                         HTTP_500_INTERNAL_SERVER_ERROR, <<>>)
                     /\ UNCHANGED <<prefs, nextPrefId>>
                ELSE /\ nextPrefId <= MaxPrefId
                     /\ prefs' = prefs \cup {row}
                     /\ nextPrefId' = nextPrefId + 1
                     /\ resp' = Response("pref_create", caller, row.id, body,
                                         HTTP_201_CREATED, <<row>>)

PrefList(caller) ==
    /\ UNCHANGED <<users, prefs, nextPrefId, logs, nextLogId, query, emailOf, reg, stream>>
    /\ IF ~IsAuthenticated(caller)
       THEN resp' = Response("pref_list", caller, 0, NoRequest,
                            HTTP_401_UNAUTHORIZED, <<>>)
       ELSE resp' = Response("pref_list", caller, 0, NoRequest, HTTP_200_OK,
                             ByIdDesc(PrefQueryset(caller)))

PrefRetrieve(caller, id) ==
    /\ UNCHANGED <<users, prefs, nextPrefId, logs, nextLogId, query, emailOf, reg, stream>>
    /\ IF ~IsAuthenticated(caller)
       THEN resp' = Response("pref_retrieve", caller, id, NoRequest,
                            HTTP_401_UNAUTHORIZED, <<>>)
       ELSE IF ~\E p \in PrefQueryset(caller) : p.id = id
       THEN resp' = Response("pref_retrieve", caller, id, NoRequest,
                            HTTP_404_NOT_FOUND, <<>>)
       ELSE LET p == CHOOSE r \in PrefQueryset(caller) : r.id = id
            IN  resp' = Response("pref_retrieve", caller, id, NoRequest,
                                HTTP_200_OK, <<p>>)

PrefUpdate(caller, id, body, partial) ==
    LET op == IF partial THEN "pref_partial_update" ELSE "pref_update" IN
    /\ UNCHANGED <<users, nextPrefId, logs, nextLogId, query, emailOf, reg, stream>>
    /\ IF ~IsAuthenticated(caller)
       THEN /\ resp' = Response(op, caller, id, body,
                            HTTP_401_UNAUTHORIZED, <<>>)
            /\ UNCHANGED prefs
       ELSE IF ~\E p \in PrefQueryset(caller) : p.id = id
       THEN /\ resp' = Response(op, caller, id, body, HTTP_404_NOT_FOUND, <<>>)
            /\ UNCHANGED prefs
       ELSE IF ~PrefValid(body, partial)
       THEN /\ resp' = Response(op, caller, id, body, HTTP_400_BAD_REQUEST, <<>>)
            /\ UNCHANGED prefs
       ELSE LET p   == CHOOSE r \in PrefQueryset(caller) : r.id = id
                row == [id |-> p.id, user |-> PrefOwnerOnUpdate(p, body),
                        name |-> IF body.name = Absent THEN p.name ELSE body.name]
            IN  IF PrefUniqueViolation(row.id, row.user, row.name)
                THEN \* IntegrityError from the UPDATE
                     /\ resp' = Response(op, caller, id, body,
                                         HTTP_500_INTERNAL_SERVER_ERROR, <<>>)
                     /\ UNCHANGED prefs
                ELSE /\ prefs' = (prefs \ {p}) \cup {row}
                     /\ resp' = Response(op, caller, id, body, HTTP_200_OK, <<row>>)

PrefDestroy(caller, id) ==
    /\ UNCHANGED <<users, nextPrefId, logs, nextLogId, query, emailOf, reg, stream>>
    /\ IF ~IsAuthenticated(caller)
       THEN /\ resp' = Response("pref_destroy", caller, id, NoRequest,
                            HTTP_401_UNAUTHORIZED, <<>>)
            /\ UNCHANGED prefs
       ELSE IF ~\E p \in PrefQueryset(caller) : p.id = id
       THEN /\ resp' = Response("pref_destroy", caller, id, NoRequest,
                            HTTP_404_NOT_FOUND, <<>>)
            /\ UNCHANGED prefs
       ELSE /\ prefs' = {p \in prefs : p.id # id}
            /\ resp' = Response("pref_destroy", caller, id, NoRequest,
                            HTTP_204_NO_CONTENT, <<>>)

(***************************************************************************)
(* Log store.  A Log row is (id, timestamp, message, severity, source).    *)
(* A timestamp is <<month, day, hour>> of one year, compared               *)
(* lexicographically; text is a sequence of characters.                    *)
(***************************************************************************)
SEVERITY_CHOICES == {"DEBUG", "INFO", "WARNING", "ERROR", "CRITICAL"}

SourceMaxLength == 100

\* Markers of a parameter or field the request does not carry, and of a date
\* parameter that is no ISO-8601 date-time.
AbsentText == <<"<absent>">>

AbsentTs == <<0, 0, 0>>

MalformedTs == <<0, 0, 1>>

\* The ordering parameter is <<field>> or <<"-", field>>; this is its absence.
AbsentOrdering == <<>>

Timestamps == {<<1, 1, 10>>, <<1, 1, 12>>, <<1, 2, 9>>, <<2, 1, 9>>}

\* The reading of the clock (timezone.now) over the requests modelled.
Now == <<2, 1, 9>>

TsLess(a, b) ==
    \/ a[1] < b[1]
    \/ a[1] = b[1] /\ a[2] < b[2]
    \/ a[1] = b[1] /\ a[2] = b[2] /\ a[3] < b[3]

TsLeq(a, b) == a = b \/ TsLess(a, b)

\* The characters used, in ASCII order.
Ascii == <<" ", "1", "2", "A", "B", "C", "E", "R", "a", "b", "c", "e", "k", "o", "r",
           "s", "v">>

CharRank(c) == CHOOSE i \in 1..Len(Ascii) : Ascii[i] = c

Whitespace == {" "}

\* str.lower() / the case folding of an icontains lookup, on the letters used.
Lower(c) ==
    CASE c = "A" -> "a" [] c = "B" -> "b" [] c = "C" -> "c" [] c = "E" -> "e"
      [] c = "R" -> "r" [] OTHER -> c

\* serializers.CharField(trim_whitespace=True): str.strip().
RECURSIVE Strip(_)
Strip(t) ==
    IF t = <<>> THEN t
    ELSE IF Head(t) \in Whitespace THEN Strip(Tail(t))
    ELSE IF t[Len(t)] \in Whitespace THEN Strip(SubSeq(t, 1, Len(t) - 1))
    ELSE t

\* Lexicographic order of text (ORDER BY on a character column).
RECURSIVE TextLess(_, _)
TextLess(a, b) ==
    IF b = <<>> THEN FALSE
    ELSE IF a = <<>> THEN TRUE
    ELSE IF Head(a) # Head(b) THEN CharRank(Head(a)) < CharRank(Head(b))
    ELSE TextLess(Tail(a), Tail(b))

\* Alphabetical order of the severity values.
SeverityRank(s) ==
    CASE s = "CRITICAL" -> 1 [] s = "DEBUG" -> 2 [] s = "ERROR" -> 3
      [] s = "INFO" -> 4 [] s = "WARNING" -> 5

NoQuery == [severity |-> Absent, source |-> AbsentText, date_from |-> AbsentTs,
            date_to |-> AbsentTs, search |-> AbsentText, ordering |-> AbsentOrdering,
            group_by |-> Absent, interval |-> Absent]

\* The sample texts.
T_errA == <<"e", "r", "r", " ", "A">>

T_okB == <<"o", "k", " ", "B">>

T_errC == <<"e", "r", "r", " ", "C">>

T_svc1 == <<"s", "v", "c", "1">>

T_svc2 == <<"s", "v", "c", "2">>

T_Cerr == <<"C", " ", "e", "r", "r">>

T_ERR == <<"E", "R", "R">>

\* Request bodies of the log create / update endpoints.
LogBody(ts, message, severity, source) ==
    [timestamp |-> ts, message |-> message, severity |-> severity, source |-> source]

LogBodies ==
    { LogBody(<<1, 1, 10>>, T_errA, "ERROR", T_svc1),
      LogBody(<<1, 1, 12>>, T_okB, "INFO", T_svc2),
      LogBody(<<1, 2, 9>>, T_errC, "ERROR", T_svc1),
      LogBody(<<2, 1, 9>>, T_okB \o <<" ">>, "ERROR", T_svc2),
      LogBody(<<1, 1, 12>>, T_okB, "FATAL", T_svc1),
      LogBody(AbsentTs, AbsentText, "INFO", AbsentText) }

LogIds == 1..MaxLogId

\* LogSerializer validation: message, severity and source are required unless
\* the update is partial; text is stripped and must not be blank; severity is
\* one of the choices; timestamp is optional (the model supplies a default).
LogValid(body, partial) ==
    /\ IF body.message = AbsentText THEN partial ELSE Strip(body.message) # <<>>
    /\ IF body.severity = Absent THEN partial ELSE body.severity \in SEVERITY_CHOICES
    /\ IF body.source = AbsentText THEN partial
       ELSE Strip(body.source) # <<>> /\ Len(Strip(body.source)) <= SourceMaxLength

\* The row an accepted body writes: the fields given replace those of old.
\* An absent timestamp of a new row (old.timestamp = AbsentTs) is timezone.now.
LogRows(old, body) ==
    { [id        |-> old.id,
       timestamp |-> ts,
       message   |-> IF body.message = AbsentText THEN old.message ELSE Strip(body.message),
       severity  |-> IF body.severity = Absent THEN old.severity ELSE body.severity,
       source    |-> IF body.source = AbsentText THEN old.source ELSE Strip(body.source)] :
      ts \in IF body.timestamp # AbsentTs THEN {body.timestamp}
             ELSE IF old.timestamp # AbsentTs THEN {old.timestamp}
             ELSE {Now} }

NewLog == [id |-> nextLogId, timestamp |-> AbsentTs, message |-> AbsentText,
           severity |-> Absent, source |-> AbsentText]

LogCreate(caller, body) ==
    /\ UNCHANGED <<users, prefs, nextPrefId, query, emailOf, reg, stream>>
    /\ IF ~IsAuthenticated(caller)
       THEN /\ resp' = Response("log_create", caller, 0, NoRequest,
                                HTTP_401_UNAUTHORIZED, <<>>)
            /\ UNCHANGED <<logs, nextLogId>>
       ELSE IF ~LogValid(body, FALSE)
       THEN /\ resp' = Response("log_create", caller, 0, NoRequest,
                                HTTP_400_BAD_REQUEST, <<>>)
            /\ UNCHANGED <<logs, nextLogId>>
       ELSE /\ nextLogId <= MaxLogId
            /\ \E row \in LogRows(NewLog, body) :
                  /\ logs' = logs \cup {row}
                  /\ resp' = Response("log_create", caller, row.id, NoRequest,
                                      HTTP_201_CREATED, <<row>>)
            /\ nextLogId' = nextLogId + 1

LogRetrieve(caller, id) ==
    /\ UNCHANGED <<users, prefs, nextPrefId, logs, nextLogId, query, emailOf, reg, stream>>
    /\ IF ~IsAuthenticated(caller)
       THEN resp' = Response("log_retrieve", caller, id, NoRequest,
                             HTTP_401_UNAUTHORIZED, <<>>)
       ELSE IF ~\E l \in logs : l.id = id
       THEN resp' = Response("log_retrieve", caller, id, NoRequest,
                             HTTP_404_NOT_FOUND, <<>>)
       ELSE LET l == CHOOSE r \in logs : r.id = id
            IN  resp' = Response("log_retrieve", caller, id, NoRequest,
                                 HTTP_200_OK, <<l>>)

\* ModelViewSet.update / partial_update: open to every authenticated caller.
LogUpdate(caller, id, body, partial) ==
    LET op == IF partial THEN "log_partial_update" ELSE "log_update" IN
    /\ UNCHANGED <<users, prefs, nextPrefId, nextLogId, query, emailOf, reg, stream>>
    /\ IF ~IsAuthenticated(caller)
       THEN /\ resp' = Response(op, caller, id, NoRequest,
                                HTTP_401_UNAUTHORIZED, <<>>)
            /\ UNCHANGED logs
       ELSE IF ~\E l \in logs : l.id = id
       THEN /\ resp' = Response(op, caller, id, NoRequest, HTTP_404_NOT_FOUND, <<>>)
            /\ UNCHANGED logs
       ELSE IF ~LogValid(body, partial)
       THEN /\ resp' = Response(op, caller, id, NoRequest, HTTP_400_BAD_REQUEST, <<>>)
            /\ UNCHANGED logs
       ELSE LET l == CHOOSE r \in logs : r.id = id
            IN  \E row \in LogRows(l, body) :
                   /\ logs' = (logs \ {l}) \cup {row}
                   /\ resp' = Response(op, caller, id, NoRequest, HTTP_200_OK, <<row>>)

\* Variant: the delete is not restricted to the row addressed.
LogsAfterDestroy_All(id) == {}

\* instance.delete() of the row addressed.
LogsAfterDestroy(id) == {l \in logs : l.id # id}

\* ModelViewSet.destroy: open to every authenticated caller.
LogDestroy(caller, id) ==
    /\ UNCHANGED <<users, prefs, nextPrefId, nextLogId, query, emailOf, reg, stream>>
    /\ IF ~IsAuthenticated(caller)
       THEN /\ resp' = Response("log_destroy", caller, id, NoRequest,
                                HTTP_401_UNAUTHORIZED, <<>>)
            /\ UNCHANGED logs
       ELSE IF ~\E l \in logs : l.id = id
       THEN /\ resp' = Response("log_destroy", caller, id, NoRequest,
                                HTTP_404_NOT_FOUND, <<>>)
            /\ UNCHANGED logs
       ELSE /\ logs' = LogsAfterDestroy(id)
            /\ resp' = Response("log_destroy", caller, id, NoRequest,
                                HTTP_204_NO_CONTENT, <<>>)

\* DemoDataGenerator.clear_existing_data: the offline administrative clear.
ClearExistingData ==
    /\ prefs' = {}
    /\ logs' = {}
    /\ users' = users \cap Superusers
    /\ emailOf' = [u \in users \cap Superusers |-> emailOf[u]]
    /\ resp' = Response("clear_existing_data", Anonymous, 0, NoRequest, 0, <<>>)
    /\ UNCHANGED <<nextPrefId, nextLogId, query, reg, stream>>

(***************************************************************************)
(* Query side of LogViewSet: filter_queryset and the raw / aggregated      *)
(* actions.  The request's query parameters are in query.                  *)
(***************************************************************************)
Row(id, ts, message, severity, source) ==
    [id |-> id, timestamp |-> ts, message |-> message, severity |-> severity,
     source |-> source]

\* A store as DemoDataGenerator / earlier create requests leave it: the rows
\* of the stores the query endpoints are exercised on.
SampleRows ==
    { Row(1, <<1, 1, 10>>, T_errA, "ERROR", T_svc1),
      Row(2, <<1, 1, 12>>, T_okB, "INFO", T_svc2),
      Row(3, <<1, 2, 9>>, T_errC, "ERROR", T_svc1),
      Row(4, <<2, 1, 9>>, T_okB, "ERROR", T_svc2),
      Row(5, <<1, 1, 10>>, T_Cerr, "WARNING", T_svc2) }

Query(severity, source, date_from, date_to, search, ordering, group_by, interval) ==
    [severity |-> severity, source |-> source, date_from |-> date_from,
     date_to |-> date_to, search |-> search, ordering |-> ordering,
     group_by |-> group_by, interval |-> interval]

\* Variant: the severity parameter is not applied.
SeverityMatch_IgnoreValue(l, value) == TRUE

\* severity: ChoiceFilter, lookup exact.
SeverityMatch(l, value) == l.severity = value

\* source: CharFilter, lookup exact.
SourceMatch(l, value) == l.source = value

\* date_from = IsoDateTimeFilter(field_name="timestamp", lookup_expr="gte").
DateFromMatch(l, a) == TsLeq(a, l.timestamp)

\* Variant: lookup_expr="lt".
DateToMatch_Exclusive(l, b) == TsLess(l.timestamp, b)

\* date_to = IsoDateTimeFilter(field_name="timestamp", lookup_expr="lte").
DateToMatch(l, b) == TsLeq(l.timestamp, b)

\* The filterset's form is invalid: a severity outside the choices or a date
\* that does not parse.  The filter backend answers 400.
FilterInvalid(q) ==
    \/ q.severity \notin (SEVERITY_CHOICES \cup {Absent, ""})
    \/ q.date_from = MalformedTs
    \/ q.date_to = MalformedTs

\* LogFilter: every parameter given and not empty constrains the rows.
LogFilter(rows, q) ==
    { l \in rows :
        /\ q.severity \in {Absent, ""} \/ SeverityMatch(l, q.severity)
        /\ q.source \in {AbsentText, <<>>} \/ SourceMatch(l, q.source)
        /\ q.date_from = AbsentTs \/ DateFromMatch(l, q.date_from)
        /\ q.date_to = AbsentTs \/ DateToMatch(l, q.date_to) }

SearchSeparators == {" ", ","}

\* SearchFilter.get_search_terms: commas become spaces, then str.split().
SearchTerms(text) ==
    IF text = AbsentText THEN {}
    ELSE LET n == Len(text)
             runs == { p \in (1..n) \X (1..n) :
                         /\ p[1] <= p[2]
                         /\ \A k \in p[1]..p[2] : text[k] \notin SearchSeparators
                         /\ (p[1] = 1 \/ text[p[1] - 1] \in SearchSeparators)
                         /\ (p[2] = n \/ text[p[2] + 1] \in SearchSeparators) }
         IN  { SubSeq(text, p[1], p[2]) : p \in runs }

\* The icontains lookup: needle occurs in hay, letters compared without case.
IContains(hay, needle) ==
    \E i \in 0..(Len(hay) - Len(needle)) :
        \A j \in 1..Len(needle) : Lower(hay[i + j]) = Lower(needle[j])

\* Variant: search_fields = ["message"].
SearchMatch_MessageOnly(l, term) == IContains(l.message, term)

\* search_fields = ["message", "source"]: the term occurs in either field.
SearchMatch(l, term) == IContains(l.message, term) \/ IContains(l.source, term)

\* SearchFilter.filter_queryset: every term must match.
SearchFilter(rows, q) ==
    { l \in rows : \A term \in SearchTerms(q.search) : SearchMatch(l, term) }

ORDERING_FIELDS == {"timestamp", "severity", "source"}

\* Variant: without a usable ordering parameter the rows come oldest first.
OrderingOf_AscendingDefault(q) ==
    LET given == q.ordering # AbsentOrdering
        desc  == given /\ Head(q.ordering) = "-"
        field == IF desc THEN q.ordering[2] ELSE q.ordering[1]
    IN  IF given /\ field \in ORDERING_FIELDS
        THEN [field |-> field, desc |-> desc]
        ELSE [field |-> "timestamp", desc |-> FALSE]

\* OrderingFilter.get_ordering: the field named by the ordering parameter if
\* it is in ordering_fields, else the default, Log.Meta.ordering.
OrderingOf(q) ==
    LET given == q.ordering # AbsentOrdering
        desc  == given /\ Head(q.ordering) = "-"
        field == IF desc THEN q.ordering[2] ELSE q.ordering[1]
    IN  IF given /\ field \in ORDERING_FIELDS
        THEN [field |-> field, desc |-> desc]
        ELSE [field |-> "timestamp", desc |-> TRUE]

RowLess(field, a, b) ==
    CASE field = "timestamp" -> TsLess(a.timestamp, b.timestamp)
      [] field = "severity"  -> SeverityRank(a.severity) < SeverityRank(b.severity)
      [] field = "source"    -> TextLess(a.source, b.source)
      [] field = "count"     -> a.count < b.count
      [] field = "date"      -> TsLess(a.date \o <<0>>, b.date \o <<0>>)

\* The sequences that list the elements of S once each.
Perms(S) ==
    { f \in [1..Cardinality(S) -> S] :
        \A i, j \in 1..Cardinality(S) : i # j => f[i] # f[j] }

\* ORDER BY field [DESC]: the store may return rows that tie in either order.
OrderBy(S, field, desc) ==
    { f \in Perms(S) :
        \A i, j \in 1..Cardinality(S) :
            i < j => IF desc THEN ~RowLess(field, f[i], f[j])
                             ELSE ~RowLess(field, f[j], f[i]) }

\* GenericAPIView.filter_queryset over the configured backends.
FilterQueryset(q) == SearchFilter(LogFilter(logs, q), q)

\* LogViewSet.raw.
Raw(caller) ==
    /\ UNCHANGED <<users, prefs, nextPrefId, logs, nextLogId, query, emailOf, reg, stream>>
    /\ IF ~IsAuthenticated(caller)
       THEN resp' = Response("raw", caller, 0, NoRequest, HTTP_401_UNAUTHORIZED, <<>>)
       ELSE IF FilterInvalid(query)
       THEN resp' = Response("raw", caller, 0, NoRequest, HTTP_400_BAD_REQUEST, <<>>)
       ELSE \E body \in OrderBy(FilterQueryset(query), OrderingOf(query).field,
                                OrderingOf(query).desc) :
               resp' = Response("raw", caller, 0, NoRequest, HTTP_200_OK, body)

\* Variant: the interval is not consulted, every bucket is a day.
TruncDate_AlwaysDay(ts, interval) == <<ts[1], ts[2]>>

\* TruncDay / TruncMonth followed by .date(): the <<month, day>> at which the
\* bucket of a timestamp starts.
TruncDate(ts, interval) == IF interval = "day" THEN <<ts[1], ts[2]>> ELSE <<ts[1], 1>>

\* Variant: one entry per severity choice, present or not.
CountBySeverity_AllChoices(rows) ==
    { [severity |-> s, count |-> Cardinality({l \in rows : l.severity = s})] :
        s \in SEVERITY_CHOICES }

\* values(key).annotate(count=Count("id")): one entry per key present.
CountBySeverity(rows) ==
    { [severity |-> s, count |-> Cardinality({l \in rows : l.severity = s})] :
        s \in {l.severity : l \in rows} }

CountBySource(rows) ==
    { [source |-> s, count |-> Cardinality({l \in rows : l.source = s})] :
        s \in {l.source : l \in rows} }

CountByDate(rows, interval) ==
    { [date |-> d,
       count |-> Cardinality({l \in rows : TruncDate(l.timestamp, interval) = d})] :
        d \in {TruncDate(l.timestamp, interval) : l \in rows} }

\* LogViewSet.aggregated.
Aggregated(caller) ==
    LET group_by == IF query.group_by = Absent THEN "date" ELSE query.group_by
        interval == IF query.interval = Absent THEN "day" ELSE query.interval
        qs       == FilterQueryset(query)
        results  == IF group_by = "date"
                    THEN OrderBy(CountByDate(qs, interval), "date", FALSE)
                    ELSE IF group_by = "severity"
                    THEN OrderBy(CountBySeverity(qs), "count", TRUE)
                    ELSE OrderBy(CountBySource(qs), "count", TRUE)
    IN  /\ UNCHANGED <<users, prefs, nextPrefId, logs, nextLogId, query, emailOf, reg, stream>>
        /\ IF ~IsAuthenticated(caller)
           THEN resp' = Response("aggregated", caller, 0, NoRequest,
                                 HTTP_401_UNAUTHORIZED, <<>>)
           ELSE IF FilterInvalid(query)
           THEN resp' = Response("aggregated", caller, 0, NoRequest,
                                 HTTP_400_BAD_REQUEST, <<>>)
           ELSE \E body \in results :
                   resp' = Response("aggregated", caller, 0, NoRequest,
                                    HTTP_200_OK, body)

(***************************************************************************)
(* LogViewSet.export_csv: the streamed CSV export.  Lines and fields are   *)
(* sequences of characters.  stream is the state of the response being     *)
(* streamed: the position of the generator (pc), the state of the store    *)
(* cursor, the rows its query returned (result), how many of them have     *)
(* been fetched and yielded, the lines delivered and whether the consumer  *)
(* is connected.                                                           *)
(***************************************************************************)
Digit(n) ==
    CASE n = 0 -> "0" [] n = 1 -> "1" [] n = 2 -> "2" [] n = 3 -> "3" [] n = 4 -> "4"
      [] n = 5 -> "5" [] n = 6 -> "6" [] n = 7 -> "7" [] n = 8 -> "8" [] n = 9 -> "9"

\* str(int).
RECURSIVE Decimal(_)
Decimal(n) == IF n < 10 THEN <<Digit(n)>> ELSE Decimal(n \div 10) \o <<Digit(n % 10)>>

TwoDigits(n) == <<Digit(n \div 10), Digit(n % 10)>>

\* The year the timestamps of the model lie in.
YearText == <<"2", "0", "2", "4">>

\* datetime.isoformat(sep) of a timestamp kept in UTC.
IsoFormat(ts, sep) ==
    YearText \o <<"-">> \o TwoDigits(ts[1]) \o <<"-">> \o TwoDigits(ts[2]) \o <<sep>>
        \o TwoDigits(ts[3]) \o <<":", "0", "0", ":", "0", "0">>
        \o <<"+", "0", "0", ":", "0", "0">>

\* What csv.writer writes for a datetime field: str(datetime), which is
\* isoformat(sep=" ").
StrDateTime(ts) == IsoFormat(ts, " ")

\* What LogSerializer renders for timestamp: isoformat(), with a trailing
\* "+00:00" replaced by "Z".
DrfDateTime(ts) ==
    LET v == IsoFormat(ts, "T")
        n == Len(v)
    IN  IF n >= 6 /\ SubSeq(v, n - 5, n) = <<"+", "0", "0", ":", "0", "0">>
        THEN SubSeq(v, 1, n - 6) \o <<"Z">>
        ELSE v

SeverityText(s) ==
    CASE s = "DEBUG"    -> <<"D", "E", "B", "U", "G">>
      [] s = "INFO"     -> <<"I", "N", "F", "O">>
      [] s = "WARNING"  -> <<"W", "A", "R", "N", "I", "N", "G">>
      [] s = "ERROR"    -> <<"E", "R", "R", "O", "R">>
      [] s = "CRITICAL" -> <<"C", "R", "I", "T", "I", "C", "A", "L">>

\* LogSerializer(...).data as the raw listing carries it, every value as text.
LogSerializerData(l) ==
    <<Decimal(l.id), DrfDateTime(l.timestamp), l.message, SeverityText(l.severity),
      l.source>>

\* The characters that make csv.writer quote a field (QUOTE_MINIMAL).
CsvSpecial == {",", "\"", "\r", "\n"}

RECURSIVE DoubleQuotes(_)
DoubleQuotes(t) ==
    IF t = <<>> THEN <<>>
    ELSE (IF Head(t) = "\"" THEN <<"\"", "\"">> ELSE <<Head(t)>>) \o DoubleQuotes(Tail(t))

CsvField(t) ==
    IF \E i \in 1..Len(t) : t[i] \in CsvSpecial
    THEN <<"\"">> \o DoubleQuotes(t) \o <<"\"">>
    ELSE t

RECURSIVE CsvJoin(_)
CsvJoin(fields) ==
    IF Len(fields) = 1 THEN CsvField(fields[1])
    ELSE CsvField(Head(fields)) \o <<",">> \o CsvJoin(Tail(fields))

\* Echo.write returns the line csv.writer hands it: writerow is the line.
WriteRow(fields) == CsvJoin(fields) \o <<"\r", "\n">>

HeaderLine ==
    WriteRow(<< <<"i", "d">>, <<"t", "i", "m", "e", "s", "t", "a", "m", "p">>,
                <<"m", "e", "s", "s", "a", "g", "e">>,
                <<"s", "e", "v", "e", "r", "i", "t", "y">>,
                <<"s", "o", "u", "r", "c", "e">> >>)

LogLine(log) ==
    WriteRow(<<Decimal(log.id), StrDateTime(log.timestamp), log.message,
               SeverityText(log.severity), log.source>>)

NoStream ==
    [pc |-> "none", cursor |-> "unopened", result |-> <<>>, fetched |-> 0,
     yielded |-> 0, lines |-> <<>>, connected |-> FALSE]

Min(a, b) == IF a < b THEN a ELSE b

\* LogViewSet.export_csv up to its return: the queryset is filtered but not
\* evaluated, and the generator is created but not started.
ExportCsv(caller) ==
    /\ stream.pc = "none"
    /\ UNCHANGED <<users, prefs, nextPrefId, logs, nextLogId, query, emailOf, reg>>
    /\ IF ~IsAuthenticated(caller)
       THEN /\ resp' = Response("export_csv", caller, 0, NoRequest,
                                HTTP_401_UNAUTHORIZED, <<>>)
            /\ UNCHANGED stream
       ELSE IF FilterInvalid(query)
       THEN /\ resp' = Response("export_csv", caller, 0, NoRequest,
                                HTTP_400_BAD_REQUEST, <<>>)
            /\ UNCHANGED stream
       ELSE /\ resp' = Response("export_csv", caller, 0, NoRequest, HTTP_200_OK, <<>>)
            /\ stream' = [NoStream EXCEPT !.pc = "created", !.connected = TRUE]

\* Variant: the cursor is left as it is when the generator ends or is closed.
CursorReleased_Leak(cursor) == cursor

\* cursor.close() in the finally clause of the queryset iterator.
CursorReleased(cursor) == IF cursor = "open" THEN "released" ELSE cursor

\* The generator reaches the end of its loop: the fetch returned no row.
GeneratorReturns(s) ==
    [s EXCEPT !.pc = "returned", !.cursor = CursorReleased(s.cursor)]

\* The generator yields the next row of the batch, fetching the next batch of
\* at most ChunkSize rows when the batch is used up.
GeneratorYieldsRow(s) ==
    [s EXCEPT !.pc = "at_row",
              !.fetched = IF s.yielded < s.fetched THEN s.fetched
                          ELSE Min(s.fetched + ChunkSize, Len(s.result)),
              !.yielded = s.yielded + 1,
              !.lines = Append(s.lines, LogLine(s.result[s.yielded + 1]))]

\* The consumer pulls the next line: next(generate_csv()).  The first pull
\* runs the generator to the yield of the header; the second enters the loop,
\* which opens the cursor and runs the query.
PullLine ==
    /\ stream.connected
    /\ UNCHANGED <<users, prefs, nextPrefId, logs, nextLogId, query, resp, emailOf, reg>>
    /\ CASE stream.pc = "created" ->
              stream' = [stream EXCEPT !.pc = "at_header", !.lines = <<HeaderLine>>]
         [] stream.pc = "at_header" ->
              \E body \in OrderBy(FilterQueryset(query), OrderingOf(query).field,
                                  OrderingOf(query).desc) :
                 LET opened == [stream EXCEPT !.cursor = "open", !.result = body]
                 IN  stream' = IF body = <<>> THEN GeneratorReturns(opened)
                               ELSE GeneratorYieldsRow(opened)
         [] stream.pc = "at_row" ->
              stream' = IF stream.yielded < Len(stream.result)
                        THEN GeneratorYieldsRow(stream)
                        ELSE GeneratorReturns(stream)
         [] OTHER -> FALSE

\* The transport reports that the consumer is gone.
Disconnect ==
    /\ stream.connected
    /\ stream.pc \in {"created", "at_header", "at_row"}
    /\ stream' = [stream EXCEPT !.connected = FALSE]
    /\ UNCHANGED <<users, prefs, nextPrefId, logs, nextLogId, query, resp, emailOf, reg>>

\* The server closes the response when the consumer is gone or the generator
\* is exhausted: StreamingHttpResponse.close() closes the generator, which
\* raises GeneratorExit at its yield; generate_csv handles nothing, so the
\* loop is left and the iterator's cursor is closed.
Close ==
    /\ stream.pc \in {"created", "at_header", "at_row", "returned"}
    /\ ~stream.connected \/ stream.pc = "returned"
    /\ stream' = [stream EXCEPT !.pc = "closed", !.connected = FALSE,
                                !.cursor = CursorReleased(stream.cursor)]
    /\ UNCHANGED <<users, prefs, nextPrefId, logs, nextLogId, query, resp, emailOf, reg>>

\* The message with a comma and a double quote.
T_quoted == <<"a", ",", "\"", "b">>

\* The rows of the stores the export is exercised on.
ExportRows ==
    { IF l.id = 4 THEN [l EXCEPT !.message = T_quoted] ELSE l : l \in SampleRows }

\* The queries the export is exercised on.
ExportQueries ==
    { Query(sev, AbsentText, AbsentTs, AbsentTs, t, o, Absent, Absent) :
        sev \in {Absent, "ERROR", "FATAL"},
        t \in {AbsentText, T_svc2},
        o \in {AbsentOrdering, <<"source">>} }

(***************************************************************************)
(* register_user: registration requests in flight.                         *)
(***************************************************************************)
\* Each request is served by its own worker: reg[p] is the request worker p
\* serves, with the position of register_user in it (pc) and its response.
Procs == {1, 2}

NoRegBody == [username |-> Absent, email |-> Absent, password |-> Absent,
              password2 |-> Absent]

NoReg == [p \in Procs |-> [pc |-> "idle", body |-> NoRegBody, status |-> 0, errors |-> {}]]

\* Passwords that validate_password turns down.
WeakPasswords == {"12345678"}

RegBodies ==
    { [username |-> n, email |-> e, password |-> pw[1], password2 |-> pw[2]] :
        n \in {"bob", "carol", "dave"},
        e \in {"bob@logsdashboard.com", "carol@logsdashboard.com"},
        pw \in {<<"s3cret-Pass", "s3cret-Pass">>, <<"s3cret-Pass", "s3cret-Past">>,
                <<"12345678", "12345678">>} }

\* RegisterSerializer.is_valid(): the fields with an error.  The unique
\* validators of username and email look the value up in the stored users.
RegErrors(body) ==
    LET field == (IF body.username \in users THEN {"username"} ELSE {})
                 \cup (IF \E u \in users : emailOf[u] = body.email THEN {"email"} ELSE {})
                 \cup (IF body.password \in WeakPasswords THEN {"password"} ELSE {})
    IN  IF field # {} THEN field
        ELSE IF body.password # body.password2 THEN {"password"}
        ELSE {}

\* register_user up to the outcome of serializer.is_valid().
RegisterValidate(p, body) ==
    /\ reg[p].pc = "idle"
    /\ reg' = [reg EXCEPT ![p] =
                  IF RegErrors(body) # {}
                  THEN [pc |-> "done", body |-> body, status |-> HTTP_400_BAD_REQUEST,
                        errors |-> RegErrors(body)]
                  ELSE [pc |-> "validated", body |-> body, status |-> 0, errors |-> {}]]
    /\ UNCHANGED <<users, prefs, nextPrefId, logs, nextLogId, query, resp, emailOf, stream>>

\* The unique index of the user table is on username alone.
InsertFails(body) == body.username \in users

\* register_user from serializer.save() on: RegisterSerializer.create inserts
\* the user; an insert the store refuses is an unhandled IntegrityError.
RegisterSave(p) ==
    /\ reg[p].pc = "validated"
    /\ IF InsertFails(reg[p].body)
       THEN /\ reg' = [reg EXCEPT ![p].pc = "done",
                                  ![p].status = HTTP_500_INTERNAL_SERVER_ERROR]
            /\ UNCHANGED <<users, emailOf>>
       ELSE /\ reg' = [reg EXCEPT ![p].pc = "done", ![p].status = HTTP_201_CREATED]
            /\ users' = users \cup {reg[p].body.username}
            /\ emailOf' = [u \in users \cup {reg[p].body.username} |->
                              IF u = reg[p].body.username THEN reg[p].body.email
                              ELSE emailOf[u]]
    /\ UNCHANGED <<prefs, nextPrefId, logs, nextLogId, query, resp, stream>>

\* The queries the raw listing is exercised on.
RawQueries ==
    { Query(sev, src, a, b, t, AbsentOrdering, Absent, Absent) :
        sev \in {Absent, "", "ERROR", "INFO", "FATAL"},
        src \in {AbsentText, T_svc1},
        a \in {AbsentTs, <<1, 1, 12>>, <<1, 2, 9>>},
        b \in {AbsentTs, <<1, 1, 12>>, <<1, 2, 9>>},
        t \in {AbsentText, T_ERR, T_svc1, T_errC} }

\* The queries the aggregation is exercised on.
AggregatedQueries ==
    { Query(sev, AbsentText, a, AbsentTs, t, AbsentOrdering, g, i) :
        sev \in {Absent, "ERROR", "FATAL"},
        a \in {AbsentTs, <<1, 1, 12>>},
        t \in {AbsentText, T_svc1},
        g \in {Absent, "date", "severity", "source", "level"},
        i \in {Absent, "day", "month"} }

\* The stores the query endpoints are exercised on.
InitStore(queries) ==
    /\ users = Users
    /\ prefs = {}
    /\ nextPrefId = 1
    /\ logs \in SUBSET SampleRows
    /\ nextLogId = Cardinality(SampleRows) + 1
    /\ query \in queries
    /\ resp = NoResp
    /\ emailOf = UserEmail
    /\ reg = NoReg
    /\ stream = NoStream

InitRaw == InitStore(RawQueries)

\* The queries the ordering of the raw listing is exercised on.
OrderingQueries ==
    { Query(sev, AbsentText, AbsentTs, AbsentTs, AbsentText, o, Absent, Absent) :
        sev \in {Absent, "ERROR", "FATAL"},
        o \in {AbsentOrdering, <<"timestamp">>, <<"-", "timestamp">>, <<"severity">>,
               <<"-", "severity">>, <<"source">>, <<"-", "source">>, <<"message">>,
               <<"-", "id">>} }

InitOrdering == InitStore(OrderingQueries)

InitAggregated == InitStore(AggregatedQueries)

InitExport ==
    /\ users = Users
    /\ prefs = {}
    /\ nextPrefId = 1
    /\ logs \in SUBSET ExportRows
    /\ nextLogId = Cardinality(ExportRows) + 1
    /\ query \in ExportQueries
    /\ resp = NoResp
    /\ emailOf = UserEmail
    /\ reg = NoReg
    /\ stream = NoStream

Init ==
    /\ users = Users
    /\ prefs = {}
    /\ nextPrefId = 1
    /\ logs = {}
    /\ nextLogId = 1
    /\ query = NoQuery
    /\ resp = NoResp
    /\ emailOf = UserEmail
    /\ reg = NoReg
    /\ stream = NoStream

NextPref ==
    \/ ClearExistingData
    \/ \E c \in Callers, b \in PrefBodies : PrefCreate(c, b)
    \/ \E c \in Callers : PrefList(c)
    \/ \E c \in Callers, i \in PrefIds : PrefRetrieve(c, i)
    \/ \E c \in Callers, i \in PrefIds, b \in PrefBodies, partial \in BOOLEAN :
          PrefUpdate(c, i, b, partial)
    \/ \E c \in Callers, i \in PrefIds : PrefDestroy(c, i)

SpecPref == Init /\ [][NextPref]_vars

NextLog ==
    \/ ClearExistingData
    \/ \E c \in Callers, b \in LogBodies : LogCreate(c, b)
    \/ \E c \in Callers, i \in LogIds : LogRetrieve(c, i)
    \/ \E c \in Callers, i \in LogIds, b \in LogBodies, partial \in BOOLEAN :
          LogUpdate(c, i, b, partial)
    \/ \E c \in Callers, i \in LogIds : LogDestroy(c, i)

SpecLog == Init /\ [][NextLog]_vars

NextRaw ==
    \/ ClearExistingData
    \/ \E c \in Callers : Raw(c)

SpecRaw == InitRaw /\ [][NextRaw]_vars

NextAggregated ==
    \/ ClearExistingData
    \/ \E c \in Callers : Aggregated(c)

SpecOrdering == InitOrdering /\ [][NextRaw]_vars

SpecAggregated == InitAggregated /\ [][NextAggregated]_vars

NextRegister ==
    \/ \E p \in Procs, b \in RegBodies : RegisterValidate(p, b)
    \/ \E p \in Procs : RegisterSave(p)

SpecRegister == Init /\ [][NextRegister]_vars

NextExport ==
    \/ ClearExistingData
    \/ \E c \in Callers : ExportCsv(c)
    \/ PullLine
    \/ Disconnect
    \/ Close

SpecExport == InitExport /\ [][NextExport]_vars

\* A WSGI server calls close() on the response it stops iterating.
SpecExportFair == SpecExport /\ WF_vars(Close)

(***************************************************************************)
(* Properties of the filter preference store.                              *)
(***************************************************************************)
PrefMutatingOps == {"pref_update", "pref_partial_update", "pref_destroy"}

PrefObjectOps == PrefMutatingOps \cup {"pref_retrieve"}

BodySet(r) == {r.body[i] : i \in 1..Len(r.body)}

PrefUnique == \A p, q \in prefs : (p.user = q.user /\ p.name = q.name) => p = q

\* A step that served a valid create request of an authenticated caller.
PrefCreateServed ==
    /\ resp'.op = "pref_create"
    /\ IsAuthenticated(resp'.caller)
    /\ PrefValid(resp'.req, FALSE)

PrefCreateRule ==
    PrefCreateServed =>
        IF \E p \in prefs : p.user = resp'.caller /\ p.name = resp'.req.name
        THEN resp'.status >= 400 /\ prefs' = prefs
        ELSE /\ resp'.status = HTTP_201_CREATED
             /\ prefs' = prefs \cup {[id |-> nextPrefId, user |-> resp'.caller,
                                      name |-> resp'.req.name]}

\* C1: no two stored preferences ever share a (user, name) pair; a create whose
\* name the caller already uses fails and stores nothing, and a create whose
\* name is used only by other users succeeds.
C1_UniquePerUser == []PrefUnique /\ [][PrefCreateRule]_vars

\* A duplicate create has just failed for a caller while another user holds a
\* preference of the same name.
C1_Witness ==
    /\ resp.op = "pref_create"
    /\ resp.status >= 400
    /\ \E p, q \in prefs : /\ p.user = resp.caller
                           /\ p.name = resp.req.name
                           /\ q.user # p.user
                           /\ q.name = p.name

\* C2: the list returned to a caller is exactly the stored preferences owned by
\* that caller, so it never holds a preference of another user.
C2_ListIsOwnPrefs ==
    (resp.op = "pref_list" /\ resp.status = HTTP_200_OK) =>
        /\ BodySet(resp) = {p \in prefs : p.user = resp.caller}
        /\ Len(resp.body) = Cardinality(BodySet(resp))

\* A non-empty list was returned while another user holds a same-named preference.
C2_Witness ==
    /\ resp.op = "pref_list"
    /\ resp.status = HTTP_200_OK
    /\ \E i \in 1..Len(resp.body) :
          \E q \in prefs : q.user # resp.caller /\ q.name = resp.body[i].name

\* C3: retrieve, update and delete of another user's preference answer 404 with
\* an empty body, exactly as for an id that does not exist, and change nothing.
C3_CrossUserNotFound ==
    [][(resp'.op \in PrefObjectOps /\ IsAuthenticated(resp'.caller)
            /\ ~\E p \in prefs : p.id = resp'.id /\ p.user = resp'.caller)
        => (resp'.status = HTTP_404_NOT_FOUND /\ resp'.body = <<>> /\ prefs' = prefs)]_vars

\* An update addressed another user's existing preference and was answered 404.
C3_Witness ==
    /\ resp.op \in PrefMutatingOps
    /\ resp.status = HTTP_404_NOT_FOUND
    /\ PrefValid(resp.req, FALSE)
    /\ \E p \in prefs : p.id = resp.id /\ p.user # resp.caller /\ p.user \in users

\* C4: a created preference is owned by the caller whatever user the body
\* names, and no request changes the owner of a stored preference.
C4_OwnerIsCreator ==
    [][/\ (resp'.op = "pref_create" /\ resp'.status = HTTP_201_CREATED) =>
              \A q \in prefs' \ prefs : q.user = resp'.caller
       /\ \A p \in prefs : \A q \in prefs' : q.id = p.id => q.user = p.user]_vars

\* An update whose body named another user succeeded and the owner is still
\* the caller, who created the preference.
C4_Witness ==
    /\ resp.op = "pref_update"
    /\ resp.status = HTTP_200_OK
    /\ resp.req.user \in Users \ {resp.caller}
    /\ \E p \in prefs : p.id = resp.id /\ p.user = resp.caller

\* C5: a create whose (user, name) pair already exists is answered as a
\* validation error (400) and leaves the stored preferences unchanged.
C5_DuplicateIsValidationError ==
    [][(PrefCreateServed
            /\ \E p \in prefs : p.user = resp'.caller /\ p.name = resp'.req.name)
        => (resp'.status = HTTP_400_BAD_REQUEST /\ prefs' = prefs)]_vars

(***************************************************************************)
(* Properties of the log store and its query endpoints.                    *)
(***************************************************************************)
LogUpdateOps == {"log_update", "log_partial_update"}

\* C6 as stated: an existing log record is never changed, and is removed only
\* by the administrative bulk clear.
C6_LogsImmutable ==
    [][resp'.op # "clear_existing_data" => \A l \in logs : l \in logs']_vars

\* C6 as amended: a log record changes only by a successful update addressed
\* to its id, which keeps the id, and is removed only by a successful delete
\* addressed to its id or by the bulk clear; every other request, and every
\* rejected one, leaves the stored records as they are.
C6_LogsChangeOnlyByUpdateOrDelete ==
    [][\A l \in logs :
          \/ l \in logs'
          \/ /\ resp'.op \in LogUpdateOps
             /\ resp'.status = HTTP_200_OK
             /\ IsAuthenticated(resp'.caller)
             /\ resp'.id = l.id
             /\ \E r \in logs' : r.id = l.id /\ resp'.body = <<r>>
          \/ /\ resp'.op = "log_destroy"
             /\ resp'.status = HTTP_204_NO_CONTENT
             /\ IsAuthenticated(resp'.caller)
             /\ resp'.id = l.id
             /\ logs' = logs \ {l}
          \/ /\ resp'.op = "clear_existing_data"
             /\ logs' = {}]_vars

\* An ordinary user's partial update has rewritten the severity of a record
\* that was created as an ERROR, next to a record it left alone.
C6_Witness ==
    /\ resp.op = "log_partial_update"
    /\ resp.status = HTTP_200_OK
    /\ resp.caller \notin Superusers
    /\ \E l \in logs : l.id = resp.id /\ l.message = T_errA /\ l.severity = "INFO"
    /\ \E l \in logs : l.id # resp.id

RawServed == resp.op = "raw" /\ resp.status = HTTP_200_OK

SeverityOk(l) == query.severity \in {Absent, ""} \/ l.severity = query.severity

SourceOk(l) == query.source \in {AbsentText, <<>>} \/ l.source = query.source

DateOk(l) ==
    /\ query.date_from = AbsentTs \/ ~TsLess(l.timestamp, query.date_from)
    /\ query.date_to = AbsentTs \/ ~TsLess(query.date_to, l.timestamp)

Occurs(text, l) == IContains(l.message, text) \/ IContains(l.source, text)

EveryWordOccurs(l) ==
    query.search = AbsentText \/ \A w \in SearchTerms(query.search) : Occurs(w, l)

\* C7: the raw listing filtered by a valid severity s returns, of the records
\* that meet the other constraints, exactly those of severity s (all stored
\* records of severity s when nothing else is given); an absent or empty
\* severity parameter constrains nothing.
C7_SeverityFilterExact ==
    RawServed =>
        /\ BodySet(resp) =
               {l \in logs : SourceOk(l) /\ DateOk(l) /\ EveryWordOccurs(l)
                             /\ (query.severity \in SEVERITY_CHOICES
                                    => l.severity = query.severity)}
        /\ (/\ query.source = AbsentText
            /\ query.date_from = AbsentTs
            /\ query.date_to = AbsentTs
            /\ query.search = AbsentText)
           => BodySet(resp) = IF query.severity \in SEVERITY_CHOICES
                              THEN {l \in logs : l.severity = query.severity}
                              ELSE logs

\* Only severity=ERROR was given, on a store that has ERROR records and others.
C7_Witness ==
    /\ RawServed
    /\ query = [NoQuery EXCEPT !.severity = "ERROR"]
    /\ Len(resp.body) >= 2
    /\ \E l \in logs : l.severity # "ERROR"

\* C8: with date_from = a and date_to = b the result is, of the records that
\* meet the other constraints, exactly those with a <= timestamp <= b, both
\* bounds included.
C8_DateRangeInclusive ==
    (RawServed /\ query.date_from # AbsentTs /\ query.date_to # AbsentTs) =>
        /\ BodySet(resp) =
               {l \in logs : /\ SeverityOk(l) /\ SourceOk(l) /\ EveryWordOccurs(l)
                             /\ TsLeq(query.date_from, l.timestamp)
                             /\ TsLeq(l.timestamp, query.date_to)}
        /\ \A l \in logs :
              (SeverityOk(l) /\ SourceOk(l) /\ EveryWordOccurs(l)
                 /\ l.timestamp \in {query.date_from, query.date_to}
                 /\ TsLeq(query.date_from, query.date_to))
              => l \in BodySet(resp)

\* A range was served on a store with records before a, at a, at b and after
\* b; the records at a and at b are in the result.
C8_Witness ==
    /\ RawServed
    /\ TsLess(query.date_from, query.date_to)
    /\ \E l \in logs : TsLess(l.timestamp, query.date_from)
    /\ \E l \in logs : TsLess(query.date_to, l.timestamp)
    /\ \E l, m \in BodySet(resp) :
          l.timestamp = query.date_from /\ m.timestamp = query.date_to

\* C9 as stated: a record is returned if and only if the search parameter
\* occurs, without regard to case, in its message or its source, and it meets
\* the severity, source and date constraints.
C9_SearchIsSubstring ==
    (RawServed /\ query.search # AbsentText) =>
        BodySet(resp) =
            {l \in logs : /\ SeverityOk(l) /\ SourceOk(l) /\ DateOk(l)
                          /\ Occurs(query.search, l)}

\* C9 as amended: the search parameter is split at whitespace and commas, and
\* a record is returned if and only if every word occurs, without regard to
\* case, in its message or its source (for a one-word parameter: if and only
\* if the parameter occurs), and it meets the other constraints.
C9_SearchEveryWord ==
    (RawServed /\ query.search # AbsentText) =>
        /\ BodySet(resp) =
               {l \in logs : /\ SeverityOk(l) /\ SourceOk(l) /\ DateOk(l)
                             /\ \A w \in SearchTerms(query.search) : Occurs(w, l)}
        /\ (\A k \in 1..Len(query.search) : query.search[k] \notin SearchSeparators)
           => BodySet(resp) =
                  {l \in logs : /\ SeverityOk(l) /\ SourceOk(l) /\ DateOk(l)
                                /\ Occurs(query.search, l)}

\* A two-word search returned a record in which both words occur but not the
\* parameter as a whole, under a severity constraint that excluded another
\* match, on a store with a record that lacks one of the words.
C9_Witness ==
    /\ RawServed
    /\ query.search = T_errC
    /\ query.severity = "ERROR"
    /\ \E l \in BodySet(resp) : ~Occurs(T_errC, l)
    /\ \E l \in logs : l.severity # "ERROR" /\ \A w \in SearchTerms(T_errC) : Occurs(w, l)
    /\ \E l \in logs : \E w \in SearchTerms(T_errC) : ~Occurs(w, l)

RECURSIVE SumCounts(_)
SumCounts(entries) ==
    IF entries = <<>> THEN 0 ELSE Head(entries).count + SumCounts(Tail(entries))

\* The records the query selects.
Filtered == {l \in logs : SeverityOk(l) /\ SourceOk(l) /\ DateOk(l) /\ EveryWordOccurs(l)}

BySeverityServed ==
    resp.op = "aggregated" /\ resp.status = HTTP_200_OK /\ query.group_by = "severity"

\* C10: for group_by=severity the counts add up to the number of filtered
\* records, each count is the number of filtered records of that severity, no
\* severity without a filtered record is emitted (and none twice), and the
\* entries are in descending order of count.
C10_SeverityCounts ==
    BySeverityServed =>
        /\ SumCounts(resp.body) = Cardinality(Filtered)
        /\ \A i \in 1..Len(resp.body) :
              /\ resp.body[i].count =
                     Cardinality({l \in Filtered : l.severity = resp.body[i].severity})
              /\ resp.body[i].count > 0
        /\ \A i, j \in 1..Len(resp.body) :
              /\ i # j => resp.body[i].severity # resp.body[j].severity
              /\ i < j => resp.body[i].count >= resp.body[j].count

\* Severity counts of a filtered, proper part of the store, with two different
\* counts and a severity of the store that the filter leaves out.
C10_Witness ==
    /\ BySeverityServed
    /\ Filtered # logs
    /\ Len(resp.body) >= 2
    /\ resp.body[1].count > resp.body[Len(resp.body)].count
    /\ \E l \in logs : \A i \in 1..Len(resp.body) : resp.body[i].severity # l.severity

(***************************************************************************)
(* Properties of the aggregation by date.                                  *)
(***************************************************************************)
ByDateServed ==
    /\ resp.op = "aggregated"
    /\ resp.status = HTTP_200_OK
    /\ query.group_by \in {Absent, "date"}
    /\ query.interval \in {Absent, "day", "month"}

ByDay == query.interval \in {Absent, "day"}

DayOf(l) == <<l.timestamp[1], l.timestamp[2]>>

\* The calendar day or month a record falls in, named by its first day.
BucketOf(l) == IF ByDay THEN DayOf(l) ELSE <<l.timestamp[1], 1>>

RECURSIVE SumDayCounts(_)
SumDayCounts(days) ==
    IF days = {} THEN 0
    ELSE LET d == CHOOSE x \in days : TRUE
         IN  Cardinality({l \in Filtered : DayOf(l) = d}) + SumDayCounts(days \ {d})

\* C11: for group_by=date the output has exactly one entry per calendar day
\* (interval=day) or calendar month (interval=month) in which a filtered
\* record falls and no other entry, each count is the number of filtered
\* records of the bucket, the entries are in ascending order of bucket start,
\* and a month's count is the sum of the counts of the days of that month.
C11_DateBuckets ==
    ByDateServed =>
        /\ {resp.body[i].date : i \in 1..Len(resp.body)} = {BucketOf(l) : l \in Filtered}
        /\ \A i \in 1..Len(resp.body) :
              /\ resp.body[i].count =
                     Cardinality({l \in Filtered : BucketOf(l) = resp.body[i].date})
              /\ resp.body[i].count > 0
              /\ ~ByDay =>
                     resp.body[i].count =
                         SumDayCounts({DayOf(l) : l \in {x \in Filtered :
                                          x.timestamp[1] = resp.body[i].date[1]}})
        /\ \A i, j \in 1..Len(resp.body) :
              i < j => \/ resp.body[i].date[1] < resp.body[j].date[1]
                       \/ /\ resp.body[i].date[1] = resp.body[j].date[1]
                          /\ resp.body[i].date[2] < resp.body[j].date[2]

\* Monthly counts of a filtered, proper part of the store that spans two
\* months, one of them with records on two different days.
C11_Witness ==
    /\ ByDateServed
    /\ query.interval = "month"
    /\ Filtered # logs
    /\ Len(resp.body) = 2
    /\ \E l, m \in Filtered : l.timestamp[1] = m.timestamp[1] /\ DayOf(l) # DayOf(m)

(***************************************************************************)
(* Properties of the CSV export.                                           *)
(***************************************************************************)
\* A CSV reader: the records of a character stream, each a sequence of
\* fields.  where is the position of the reader: "record" at the start of a
\* record, "field" at the start of a later field, "plain" in an unquoted
\* field, "quoted" in a quoted field, "quote" after a quote in a quoted field.
RECURSIVE CsvRead(_, _, _, _, _)
CsvRead(chars, where, field, record, records) ==
    IF chars = <<>>
    THEN IF where = "record" THEN records ELSE Append(records, Append(record, field))
    ELSE LET c    == Head(chars)
             rest == Tail(chars)
         IN  IF where = "quoted"
             THEN IF c = "\""
                  THEN CsvRead(rest, "quote", field, record, records)
                  ELSE CsvRead(rest, "quoted", Append(field, c), record, records)
             ELSE IF c \in {"\r", "\n"}
             THEN IF where = "record"
                  THEN CsvRead(rest, "record", <<>>, <<>>, records)
                  ELSE CsvRead(rest, "record", <<>>, <<>>,
                               Append(records, Append(record, field)))
             ELSE IF c = ","
             THEN CsvRead(rest, "field", <<>>, Append(record, field), records)
             ELSE IF c = "\""
             THEN IF where = "quote"
                  THEN CsvRead(rest, "quoted", Append(field, c), record, records)
                  ELSE CsvRead(rest, "quoted", field, record, records)
             ELSE CsvRead(rest, "plain", Append(field, c), record, records)

\* The records of a sequence of lines, each line the text of whole records.
RECURSIVE ParseCsv(_)
ParseCsv(lines) ==
    IF lines = <<>> THEN <<>>
    ELSE CsvRead(Head(lines), "record", <<>>, <<>>, <<>>) \o ParseCsv(Tail(lines))

\* The export has delivered its last line, on the store it was requested on.
ExportComplete ==
    resp.op = "export_csv" /\ resp.status = HTTP_200_OK /\ stream.pc = "returned"

\* C12: the lines of a complete export after the header parse to the tuples
\* (id, timestamp, message, severity, source) of a raw listing for the same
\* query on the same store, in the same order, the timestamp in the form the
\* listing gives it.
C12_CsvRoundTrip ==
    ExportComplete =>
        \E body \in OrderBy(FilterQueryset(query), OrderingOf(query).field,
                            OrderingOf(query).desc) :
            ParseCsv(Tail(stream.lines)) =
                [i \in 1..Len(body) |-> LogSerializerData(body[i])]

\* Nothing is produced ahead of the consumer: the cursor is opened by the pull
\* of the first record, a line exists for the header and for each record
\* yielded and for nothing else, and the rows fetched but not yet yielded are
\* fewer than one batch.
ProducedOnDemand ==
    /\ stream.pc \in {"none", "created", "at_header"} => stream.cursor = "unopened"
    /\ stream.pc \in {"none", "created"} => stream.lines = <<>>
    /\ Len(stream.lines) = (IF stream.lines = <<>> THEN 0 ELSE stream.yielded + 1)
    /\ stream.lines = <<>> => stream.yielded = 0
    /\ stream.yielded <= stream.fetched
    /\ stream.fetched <= Len(stream.result)
    /\ stream.fetched - stream.yielded < ChunkSize

\* A step that changes the lines is a pull of a connected consumer, adds one
\* line, and fetches at most one batch.
OneLinePerPull ==
    stream'.lines # stream.lines =>
        /\ stream.connected
        /\ Len(stream'.lines) = Len(stream.lines) + 1
        /\ SubSeq(stream'.lines, 1, Len(stream.lines)) = stream.lines
        /\ stream'.fetched - stream.fetched <= ChunkSize

\* Once the consumer is gone the generator produces nothing and only ends,
\* and no step answers with a server error.
StopsOnDisconnect ==
    (stream.pc # "none" /\ ~stream.connected) =>
        /\ stream'.lines = stream.lines
        /\ stream'.yielded = stream.yielded
        /\ stream'.pc \in {stream.pc, "closed"}
        /\ resp'.status < HTTP_500_INTERNAL_SERVER_ERROR

CursorHeldByGoneConsumer == ~stream.connected /\ stream.cursor = "open"

\* C13: the export is produced lazily, one line per pull of the consumer, from
\* a cursor that fetches batches of bounded size; when the consumer
\* disconnects, production stops without an error and without a further line,
\* and the cursor the export holds is eventually released.
C13_LazyExport ==
    /\ []ProducedOnDemand
    /\ [][OneLinePerPull]_vars
    /\ [][StopsOnDisconnect]_vars
    /\ CursorHeldByGoneConsumer ~> stream.cursor = "released"

\* The consumer left in the middle of the second batch and the response was
\* closed: the cursor is released with records still unread.
C13_Witness ==
    /\ stream.pc = "closed"
    /\ stream.cursor = "released"
    /\ stream.fetched > ChunkSize
    /\ stream.yielded < Len(stream.result)

(***************************************************************************)
(* Properties of the ordering of the raw listing.                          *)
(***************************************************************************)
\* The request was a raw listing by an authenticated caller with valid filter
\* parameters.
RawAnswered == resp.op = "raw" /\ resp.status # HTTP_401_UNAUTHORIZED /\ ~FilterInvalid(query)

OrderingGiven == query.ordering # AbsentOrdering

OrderingDescending == OrderingGiven /\ Head(query.ordering) = "-"

OrderingField == IF OrderingDescending THEN query.ordering[2] ELSE query.ordering[1]

\* body is in ascending (descending) order of field.
InOrder(body, field, desc) ==
    \A i, j \in 1..Len(body) :
        i < j => IF desc THEN ~RowLess(field, body[i], body[j])
                         ELSE ~RowLess(field, body[j], body[i])

\* The listing answers with every selected record once, ordered as asked for
\* or, without an ordering parameter, by descending timestamp.
OrderedAsAsked ==
    (RawAnswered /\ (OrderingGiven => OrderingField \in {"timestamp", "severity", "source"}))
        => /\ resp.status = HTTP_200_OK
           /\ BodySet(resp) = Filtered
           /\ Len(resp.body) = Cardinality(Filtered)
           /\ IF OrderingGiven
              THEN InOrder(resp.body, OrderingField, OrderingDescending)
              ELSE InOrder(resp.body, "timestamp", TRUE)

OtherFieldNamed ==
    RawAnswered /\ OrderingGiven /\ OrderingField \notin {"timestamp", "severity", "source"}

\* C14 as stated: the listing is by descending timestamp without an ordering
\* parameter and by the named field and direction for timestamp, severity or
\* source, and a request whose ordering parameter names another field is
\* rejected.
C14_OtherFieldRejected ==
    /\ OrderedAsAsked
    /\ OtherFieldNamed => resp.status >= HTTP_400_BAD_REQUEST

\* C14 as the code has it: the listing is by descending timestamp without an
\* ordering parameter and by the named field and direction for timestamp,
\* severity or source; an ordering parameter that names another field is
\* not applied and not rejected either: the request is answered as if it
\* carried no ordering parameter.
C14_OtherFieldIgnored ==
    /\ OrderedAsAsked
    /\ OtherFieldNamed =>
           /\ resp.status = HTTP_200_OK
           /\ BodySet(resp) = Filtered
           /\ Len(resp.body) = Cardinality(Filtered)
           /\ InOrder(resp.body, "timestamp", TRUE)

\* A listing ordered by a field outside the allow-list was answered with
\* records of three different timestamps, ids not in order.
C14_Witness ==
    /\ OtherFieldNamed
    /\ resp.status = HTTP_200_OK
    /\ Len(resp.body) >= 3
    /\ TsLess(resp.body[3].timestamp, resp.body[2].timestamp)
    /\ TsLess(resp.body[2].timestamp, resp.body[1].timestamp)
    /\ resp.body[1].id > resp.body[2].id

(***************************************************************************)
(* Properties of registration.                                             *)
(***************************************************************************)
EmailsUnique == \A u, v \in users : emailOf[u] = emailOf[v] => u = v

\* The registration whose response worker p gives in this step.
Answers(p) == reg[p].pc # "done" /\ reg'[p].pc = "done"

Taken(body) == body.username \in users \/ \E u \in users : emailOf[u] = body.email

RegistrationRule ==
    \A p \in Procs :
        Answers(p) =>
            /\ Taken(reg'[p].body) =>
                   /\ reg'[p].status = HTTP_400_BAD_REQUEST
                   /\ reg'[p].errors \cap {"username", "email"} # {}
            /\ reg'[p].status # HTTP_201_CREATED => users' = users /\ emailOf' = emailOf

\* C15: under every interleaving of registration requests no two stored users
\* share an email (or a username); a registration whose email or username is
\* taken when it is answered fails with field-level errors, and a registration
\* that fails leaves the stored users as they were.
C15_RegistrationUnique == []EmailsUnique /\ [][RegistrationRule]_vars

====
